---- MODULE Spec2Model ----
(***************************************************************************)
(* Model of the seats.aero route explorer (src/main.py): the route         *)
(* canonicalizer (canonicalize_route, expand_route, expand_code), the      *)
(* known-routes intersection, and one recompute pass of the script with    *)
(* its rendering steps.                                                    *)
(*                                                                         *)
(* A Python str is a sequence of one-character strings, so that replace,   *)
(* split and strip are computed character by character.  Airport, city and *)
(* country codes are opaque strings to the program; the model writes each  *)
(* with one letter (KR is "K", HKG is "H", ...).                           *)
(***************************************************************************)
EXTENDS Integers, Sequences, FiniteSets, TLC

VARIABLES partner, route, expand_country, expand_city, airlines, fares,
          pc, canonicalized_route, filtered_route, route_df, rendered,
          missing, call, ret

vars == <<partner, route, expand_country, expand_city, airlines, fares,
          pc, canonicalized_route, filtered_route, route_df, rendered,
          missing, call, ret>>

widgets == <<partner, route, expand_country, expand_city, airlines, fares>>
passvars == <<pc, canonicalized_route, filtered_route, route_df, rendered, missing>>

(***************************************************************************)
(* Bounds and program constants.                                           *)
(***************************************************************************)
\* longest route string enumerated exhaustively in calls of canonicalize_route
MaxLen == 4
\* longest raw-pair list enumerated in calls of expand_route
MaxPairs == 2
\* st.text_input(..., max_chars=300)
max_chars == 300
\* "i < 1000" of the no-data report
MissingCap == 1000

(***************************************************************************)
(* Codes.  KR is a country key only, TYO a city key only, SG a key of both *)
(* tables, HKG and the rest plain airport codes.                           *)
(***************************************************************************)
KR == <<"K">>
TYO == <<"T">>
SG == <<"S">>
HKG == <<"H">>
ICN == <<"I">>
GMP == <<"G">>
NRT == <<"N">>
HND == <<"D">>
SIN == <<"P">>
XSP == <<"X">>

\* seats_aero.airport.country_expansion_dict(): country code -> airports
country_expansion_dict ==
    (KR :> <<ICN, GMP>>) @@ (SG :> <<SIN>>)

\* seats_aero.airport.city_expansion_dict(): city code -> airports
city_expansion_dict ==
    (TYO :> <<NRT, HND>>) @@ (SG :> <<SIN, XSP>>)

\* the characters of the exhaustively enumerated route strings
Alphabet == {"K", "T", "H", "-", ">", ",", " ", "\t"}
Whitespace == {" ", "\t"}
Codes == {KR, TYO, SG, HKG, ICN}

\* all strings over Alphabet of length at most n
Strings(n) == UNION {[1..k -> Alphabet] : k \in 0..n}

(***************************************************************************)
(* Python str and list operations used by the script.                      *)
(***************************************************************************)
\* str.upper() on the characters the model types
UpperChar(c) ==
    CASE c = "k" -> "K"
      [] c = "h" -> "H"
      [] c = "t" -> "T"
      [] OTHER -> c

Upper(s) == [i \in 1..Len(s) |-> UpperChar(s[i])]

\* s.replace(old, new): leftmost non-overlapping occurrences, old non-empty
RECURSIVE Replace(_, _, _)
Replace(s, old, new) ==
    IF Len(s) < Len(old) THEN s
    ELSE IF SubSeq(s, 1, Len(old)) = old
         THEN new \o Replace(SubSeq(s, Len(old) + 1, Len(s)), old, new)
         ELSE <<s[1]>> \o Replace(Tail(s), old, new)

\* s.split(sep) for a one-character separator: always at least one piece
RECURSIVE Split(_, _)
Split(s, sep) ==
    IF \A i \in 1..Len(s) : s[i] # sep THEN <<s>>
    ELSE LET i == CHOOSE k \in 1..Len(s) :
                     s[k] = sep /\ \A m \in 1..(k - 1) : s[m] # sep
         IN <<SubSeq(s, 1, i - 1)>> \o Split(SubSeq(s, i + 1, Len(s)), sep)

\* s.strip(): leading and trailing whitespace removed
RECURSIVE Strip(_)
Strip(s) ==
    IF s = <<>> THEN s
    ELSE IF s[1] \in Whitespace THEN Strip(Tail(s))
    ELSE IF s[Len(s)] \in Whitespace THEN Strip(SubSeq(s, 1, Len(s) - 1))
    ELSE s

\* the concatenation of a list of lists (res.extend in a loop)
RECURSIVE Flatten(_)
Flatten(ss) == IF ss = <<>> THEN <<>> ELSE Head(ss) \o Flatten(Tail(ss))

\* a mutant of ConsecutivePairs: a single stop becomes a pair with itself
ConsecutivePairs_selfloop(stops) ==
    IF Len(stops) = 1 THEN << <<stops[1], stops[1]>> >>
    ELSE [i \in 1..(Len(stops) - 1) |-> <<stops[i], stops[i + 1]>>]

\* a mutant of ConsecutivePairs: the chain collapses to (first, last)
ConsecutivePairs_ends(stops) ==
    IF Len(stops) = 1 THEN <<>>
    ELSE << <<stops[1], stops[Len(stops)]>> >>

\* [(org, dest) for org, dest in zip(stops[:-1], stops[1:])]
ConsecutivePairs(stops) ==
    [i \in 1..(Len(stops) - 1) |-> <<stops[i], stops[i + 1]>>]

\* a mutant of product: destination outer, origin inner
product_destouter(xs, ys) ==
    [k \in 1..(Len(xs) * Len(ys)) |->
        <<xs[((k - 1) % Len(xs)) + 1], ys[((k - 1) \div Len(xs)) + 1]>>]

\* itertools.product(xs, ys): xs outer, ys inner
product(xs, ys) ==
    [k \in 1..(Len(xs) * Len(ys)) |->
        <<xs[((k - 1) \div Len(ys)) + 1], ys[((k - 1) % Len(ys)) + 1]>>]

(***************************************************************************)
(* The route canonicalizer.                                                *)
(***************************************************************************)
\* a mutant of expand_code: the city table is consulted first
expand_code_cityfirst(code, expandCountry, expandCity) ==
    IF expandCity /\ code \in DOMAIN city_expansion_dict
    THEN city_expansion_dict[code]
    ELSE IF expandCountry /\ code \in DOMAIN country_expansion_dict
    THEN country_expansion_dict[code]
    ELSE <<code>>

expand_code(code, expandCountry, expandCity) ==
    IF expandCountry /\ code \in DOMAIN country_expansion_dict
    THEN country_expansion_dict[code]
    ELSE IF expandCity /\ code \in DOMAIN city_expansion_dict
    THEN city_expansion_dict[code]
    ELSE <<code>>

expand_route(rt, expandCountry, expandCity) ==
    Flatten([p \in 1..Len(rt) |->
        product(expand_code(rt[p][1], expandCountry, expandCity),
                expand_code(rt[p][2], expandCountry, expandCity))])

canonicalize_route(rt, expandCountry, expandCity) ==
    LET r == Replace(Replace(rt, <<" ">>, <<>>), <<"-", ">">>, <<"-">>)
        segs == Split(r, ",")
        res == Flatten([s \in 1..Len(segs) |->
                          ConsecutivePairs(Split(segs[s], "-"))])
    IN expand_route(res, expandCountry, expandCity)

(***************************************************************************)
(* Direct calls of the three functions, with arguments from bounded sets.  *)
(***************************************************************************)
NoCall == [fn |-> "none"]

RawRoutes == UNION {[1..k -> Codes \X Codes] : k \in 0..MaxPairs}

CallCanonicalize(r, ec, ecity) ==
    /\ call = NoCall
    /\ call' = [fn |-> "canonicalize_route", route |-> r,
                expand_country |-> ec, expand_city |-> ecity]
    /\ ret' = canonicalize_route(r, ec, ecity)
    /\ UNCHANGED <<widgets, passvars>>

CallExpandRoute(rt, ec, ecity) ==
    /\ call = NoCall
    /\ call' = [fn |-> "expand_route", route |-> rt,
                expand_country |-> ec, expand_city |-> ecity]
    /\ ret' = expand_route(rt, ec, ecity)
    /\ UNCHANGED <<widgets, passvars>>

CallExpandCode(code, ec, ecity) ==
    /\ call = NoCall
    /\ call' = [fn |-> "expand_code", code |-> code,
                expand_country |-> ec, expand_city |-> ecity]
    /\ ret' = expand_code(code, ec, ecity)
    /\ UNCHANGED <<widgets, passvars>>

\* the caller has read the result
Return ==
    /\ call # NoCall
    /\ call' = NoCall
    /\ ret' = <<>>
    /\ UNCHANGED <<widgets, passvars>>

(***************************************************************************)
(* The fetched availabilities (seats_aero.api) and the projector           *)
(* (seats_aero.plot.get_route_df).                                         *)
(***************************************************************************)
Str_OZ_KE == <<"O", "Z", ",", " ", "K", "E">>
Str_OZ == <<"O", "Z">>
Str_UA == <<"U", "A">>

\* seats_aero.api.partners: the options of the partner radio
partners == <<"american", "aeroplan">>

\* Availability.fetch(route_map, partner): what the service returns
load_availabilities(p) ==
    IF p = "american"
    THEN << [route |-> <<ICN, HKG>>, date |-> 1, direct |-> TRUE,
             available |-> {"Y", "J"},
             airlines |-> [f \in {"Y", "W", "J", "F"} |->
                             CASE f = "Y" -> Str_OZ_KE
                               [] f = "J" -> Str_OZ
                               [] OTHER -> <<>>]],
            [route |-> <<HKG, GMP>>, date |-> 2, direct |-> FALSE,
             available |-> {"Y"},
             airlines |-> [f \in {"Y", "W", "J", "F"} |->
                             IF f = "Y" THEN Str_OZ ELSE <<>>]],
            [route |-> <<NRT, HKG>>, date |-> 1, direct |-> TRUE,
             available |-> {"F"},
             airlines |-> [f \in {"Y", "W", "J", "F"} |->
                             IF f = "F" THEN Str_OZ_KE ELSE <<>>]] >>
    ELSE << [route |-> <<HKG, ICN>>, date |-> 1, direct |-> TRUE,
             available |-> {"W"},
             airlines |-> [f \in {"Y", "W", "J", "F"} |->
                             IF f = "W" THEN Str_UA ELSE <<>>]],
            [route |-> <<GMP, HKG>>, date |-> 3, direct |-> FALSE,
             available |-> {"Y", "W"},
             airlines |-> [f \in {"Y", "W", "J", "F"} |-> Str_UA]] >>

availabilities == load_availabilities(partner)

Range(f) == {f[i] : i \in DOMAIN f}

\* a mutant of all_possible_routes: a route also counts in the reverse direction
all_possible_routes_undirected ==
    {a.route : a \in Range(availabilities)}
        \cup {<<a.route[2], a.route[1]>> : a \in Range(availabilities)}

all_possible_routes == {a.route : a \in Range(availabilities)}

all_fares == <<"Y", "W", "F", "J">>

\* the airlines of one fare field: split on ",", stripped, empty ones dropped
ParseAirlines(s) ==
    {Strip(f) : f \in Range(Split(s, ","))} \ {<<>>}

AllAirlinesOf(avs) ==
    UNION {ParseAirlines(a.airlines[f]) : a \in Range(avs), f \in Range(all_fares)}

all_airlines == AllAirlinesOf(availabilities)

\* f"{org} -> {dest}"
RouteLabel(org, dest) == org \o <<" ", "-", ">", " ">> \o dest

\* the fare classes in the projector's order
FareOrder == <<"Y", "W", "J", "F">>

\* the row of availability a for fare f, or nothing.  A record carries seats
\* in some of the four fare classes (a.available); only those can give a row.
FareRows(a, f, routes, airlineFilter, fareFilter) ==
    IF /\ f \in a.available
       /\ (fareFilter = {} \/ f \in fareFilter)
       /\ a.route \in Range(routes)
       /\ (airlineFilter = {} \/ ParseAirlines(a.airlines[f]) \cap airlineFilter # {})
    THEN << [route |-> RouteLabel(a.route[1], a.route[2]), date |-> a.date,
             fare |-> f, airlines |-> a.airlines[f], direct |-> a.direct] >>
    ELSE <<>>

get_route_df(avs, routes, airlineFilter, fareFilter) ==
    Flatten([i \in 1..Len(avs) |->
        Flatten([k \in 1..Len(FareOrder) |->
            FareRows(avs[i], FareOrder[k], routes, airlineFilter, fareFilter)])])

(***************************************************************************)
(* Python values of different types never compare equal: a tuple is not a  *)
(* str, whatever they hold.                                                *)
(***************************************************************************)
StrVal(s) == [type |-> "str", v |-> s]
TupleVal(t) == [type |-> "tuple", v |-> t]
PyEq(a, b) == a.type = b.type /\ a.v = b.v
PyIn(x, S) == \E y \in S : PyEq(x, y)

(***************************************************************************)
(* One run of the script per user interaction.                             *)
(***************************************************************************)
default_partner == "american"
\* "KR - HKG"
default_route == KR \o <<" ", "-", " ">> \o HKG

\* the route strings the user enters
SampleRoutes ==
    { <<"K", " ", "-", " ", "H">>,
      <<"k", "-", "h">>,
      <<"T", "-", ">", "H">>,
      <<"H", "-", "K">>,
      <<"S", "-", "H">>,
      <<"K", "-", "T", "-", "H">>,
      <<"K", "-", "H", ",", "T", "-", "H">>,
      <<"K", "-", "T", "-", "H", ",", "H", "-", "K">>,
      <<"K", "-", "H", ",", "I", "-", "H">>,
      <<"K", " ", "-", " ", ">", " ", "H">>,
      <<"K", "\t", "-", "H">>,
      <<"T", "-", "K">>,
      <<"H", "-">>,
      <<"K", "-", "-", "H">>,
      <<"K">>,
      <<>> }

\* set(route_df["route"].unique())
displayed_route == {row.route : row \in Range(route_df)}

\* the rows of the no-data table
MissingRows(canon, displayed) ==
    LET keep(i) == /\ ~ PyIn(TupleVal(canon[i]), {StrVal(l) : l \in displayed})
                   /\ (i - 1) < MissingCap
        build[n \in 0..Len(canon)] ==
            IF n = 0 THEN <<>>
            ELSE IF keep(n)
                 THEN Append(build[n - 1], RouteLabel(canon[n][1], canon[n][2]))
                 ELSE build[n - 1]
    IN build[Len(canon)]

Idle == pc \in {"done", "stopped"}

\* a widget changed: the script runs again from the top
Rerun ==
    /\ pc' = "run"
    /\ canonicalized_route' = <<>>
    /\ filtered_route' = <<>>
    /\ route_df' = <<>>
    /\ rendered' = <<>>
    /\ missing' = <<>>
    /\ UNCHANGED <<call, ret>>

SelectPartner(p) ==
    /\ Idle
    /\ p # partner
    /\ partner' = p
    /\ airlines' = IF AllAirlinesOf(load_availabilities(p)) = all_airlines
                   THEN airlines ELSE {}
    /\ UNCHANGED <<route, expand_country, expand_city, fares>>
    /\ Rerun

EditRoute(r) ==
    /\ Idle
    /\ Len(r) <= max_chars
    /\ Upper(r) # route
    /\ route' = Upper(r)
    /\ UNCHANGED <<partner, expand_country, expand_city, airlines, fares>>
    /\ Rerun

SelectAirlines(sel) ==
    /\ Idle
    /\ sel # airlines
    /\ airlines' = sel
    /\ UNCHANGED <<partner, route, expand_country, expand_city, fares>>
    /\ Rerun

SelectFares(sel) ==
    /\ Idle
    /\ sel # fares
    /\ fares' = sel
    /\ UNCHANGED <<partner, route, expand_country, expand_city, airlines>>
    /\ Rerun

ToggleCountry ==
    /\ Idle
    /\ expand_country' = ~ expand_country
    /\ UNCHANGED <<partner, route, expand_city, airlines, fares>>
    /\ Rerun

ToggleCity ==
    /\ Idle
    /\ expand_city' = ~ expand_city
    /\ UNCHANGED <<partner, route, expand_country, airlines, fares>>
    /\ Rerun

\* canonicalized_route = canonicalize_route(route, expand_city, expand_country)
PassRoute == canonicalize_route(route, expand_city, expand_country)

\* [route for route in canonicalized_route if route in all_possible_routes]
KnownRoutes(canon) == SelectSeq(canon, LAMBDA rp : rp \in all_possible_routes)

\* lines 115-126: canonicalize, intersect, project, caption
Recompute ==
    /\ pc = "run"
    /\ canonicalized_route' = PassRoute
    /\ filtered_route' = KnownRoutes(PassRoute)
    /\ route_df' = get_route_df(availabilities, KnownRoutes(PassRoute),
                                airlines, fares)
    /\ rendered' = <<"caption">>
    /\ pc' = "check"
    /\ UNCHANGED <<widgets, missing, call, ret>>

\* a mutant of NoMatch: the error is shown but the script is not stopped
NoMatch_nostop ==
    /\ pc = "check"
    /\ Len(route_df) = 0
    /\ rendered' = Append(rendered, "error")
    /\ pc' = "raw"
    /\ UNCHANGED <<widgets, canonicalized_route, filtered_route, route_df,
                   missing, call, ret>>

\* lines 128-130: st.error and st.stop
NoMatch ==
    /\ pc = "check"
    /\ Len(route_df) = 0
    /\ rendered' = Append(rendered, "error")
    /\ pc' = "stopped"
    /\ UNCHANGED <<widgets, canonicalized_route, filtered_route, route_df,
                   missing, call, ret>>

\* lines 132-193: the chart
RenderChart ==
    /\ pc = "check"
    /\ Len(route_df) # 0
    /\ rendered' = Append(rendered, "chart")
    /\ pc' = "raw"
    /\ UNCHANGED <<widgets, canonicalized_route, filtered_route, route_df,
                   missing, call, ret>>

\* lines 197-198: the raw-data expander
RenderRaw ==
    /\ pc = "raw"
    /\ rendered' = Append(rendered, "raw_data")
    /\ pc' = "no_data"
    /\ UNCHANGED <<widgets, canonicalized_route, filtered_route, route_df,
                   missing, call, ret>>

\* lines 200-212: the no-data expander
RenderMissing ==
    /\ pc = "no_data"
    /\ missing' = MissingRows(canonicalized_route, displayed_route)
    /\ rendered' = rendered \o <<"no_data">> \o
                     (IF Len(canonicalized_route) > MissingCap
                      THEN <<"more">> ELSE <<>>)
    /\ pc' = "done"
    /\ UNCHANGED <<widgets, canonicalized_route, filtered_route, route_df,
                   call, ret>>

PassStep == Recompute \/ NoMatch \/ RenderChart \/ RenderRaw \/ RenderMissing

UserInput ==
    \/ \E p \in Range(partners) : SelectPartner(p)
    \/ \E r \in SampleRoutes \cup {default_route} : EditRoute(r)
    \/ \E sel \in SUBSET all_airlines : SelectAirlines(sel)
    \/ \E sel \in SUBSET Range(all_fares) : SelectFares(sel)
    \/ ToggleCountry
    \/ ToggleCity

Init ==
    /\ partner = default_partner
    /\ route = Upper(default_route)
    /\ expand_country = TRUE
    /\ expand_city = TRUE
    /\ airlines = {}
    /\ fares = {}
    /\ pc = "run"
    /\ canonicalized_route = <<>>
    /\ filtered_route = <<>>
    /\ route_df = <<>>
    /\ rendered = <<>>
    /\ missing = <<>>
    /\ call = NoCall
    /\ ret = <<>>

Next == PassStep \/ UserInput

Spec == Init /\ [][Next]_vars

NextCall ==
    \/ /\ call = NoCall
       /\ \E r \in Strings(MaxLen) \cup SampleRoutes, ec \in BOOLEAN, ecity \in BOOLEAN :
             CallCanonicalize(r, ec, ecity)
    \/ /\ call = NoCall
       /\ \E rt \in RawRoutes, ec \in BOOLEAN, ecity \in BOOLEAN :
             CallExpandRoute(rt, ec, ecity)
    \/ /\ call = NoCall
       /\ \E code \in Codes \cup {<<>>}, ec \in BOOLEAN, ecity \in BOOLEAN :
             CallExpandCode(code, ec, ecity)
    \/ Return

SpecCalls == Init /\ [][NextCall]_vars

(***************************************************************************)
(* Properties.  The helpers below state what a route string means without  *)
(* using the operators that model the code.                                *)
(***************************************************************************)
\* the n-th smallest element of a set of numbers
NthOf(S, n) == CHOOSE c \in S : Cardinality({d \in S : d < c}) = n - 1

\* the characters of t at the positions in keep, in order
KeepAt(t, keep) == [n \in 1..Cardinality(keep) |-> t[NthOf(keep, n)]]

\* ">" right after "-" disappears
DropArrowHeads(t) ==
    KeepAt(t, {i \in 1..Len(t) : ~ (t[i] = ">" /\ i > 1 /\ t[i - 1] = "-")})

\* the normalized route: the spaces go, then the arrow heads
NoSpace(s) == SelectSeq(s, LAMBDA c : c # " ")
Normal(s) == DropArrowHeads(NoSpace(s))

\* the pieces of s between the cut positions
PiecesBetween(s, cuts) ==
    [n \in 1..(Cardinality(cuts) - 1) |->
        [k \in 1..(NthOf(cuts, n + 1) - NthOf(cuts, n) - 1) |-> s[NthOf(cuts, n) + k]]]

\* the pieces of s between the occurrences of sep
Pieces(s, sep) ==
    PiecesBetween(s, {0} \cup {i \in 1..Len(s) : s[i] = sep} \cup {Len(s) + 1})

\* out is the blocks one after the other
IsBlocks(out, blocks) ==
    LET off[p \in 1..(Len(blocks) + 1)] ==
            IF p = 1 THEN 0 ELSE off[p - 1] + Len(blocks[p - 1])
    IN /\ Len(out) = off[Len(blocks) + 1]
       /\ \A p \in 1..Len(blocks) : \A i \in 1..Len(blocks[p]) :
              out[off[p] + i] = blocks[p][i]

\* the consecutive pairs of the tokens t
PairsOf(t) == [i \in 1..(Len(t) - 1) |-> <<t[i], t[i + 1]>>]
ChainPairs(seg) == PairsOf(Pieces(seg, "-"))
ChainBlocks(segs) == [s \in 1..Len(segs) |-> ChainPairs(segs[s])]

\* C1: with both flags off, canonicalize_route returns for each comma-separated
\* chain t0-t1-...-tn its consecutive pairs (t0,t1),...,(t(n-1),tn) in order,
\* earlier comma-segments first; "A-B" gives [(A,B)], "A-B-C" gives
\* [(A,B),(B,C)].
C1_ConsecutivePairs ==
    (call.fn = "canonicalize_route" /\ ~ call.expand_country /\ ~ call.expand_city)
    => /\ IsBlocks(ret, ChainBlocks(Pieces(Normal(call.route), ",")))
       /\ Len(call.route) = 3 =>
              \A a \in Codes, b \in Codes :
                  call.route = a \o <<"-">> \o b => ret = << <<a, b>> >>
       /\ Len(call.route) = 5 =>
              \A a \in Codes, b \in Codes, c \in Codes :
                  call.route = a \o <<"-">> \o b \o <<"-">> \o c
                  => ret = << <<a, b>>, <<b, c>> >>

C1_Witness ==
    /\ call.fn = "canonicalize_route"
    /\ ~ call.expand_country /\ ~ call.expand_city
    /\ call.route = <<"K", "-", "T", "-", "H", ",", "H", "-", "K">>
    /\ ret = << <<KR, TYO>>, <<TYO, HKG>>, <<HKG, KR>> >>

\* C2: expand_route appends, for every raw pair in order, the Cartesian product
\* of expand_code(org) and expand_code(dest), origin outer and destination
\* inner; the length is the sum of |expand(org)| * |expand(dest)|; with KR
\* mapped to [ICN, GMP], "KR-HKG" with country expansion only gives
\* [(ICN,HKG),(GMP,HKG)].
C2_ProductOrder ==
    /\ call.fn = "expand_route" =>
         LET e(c) == expand_code(c, call.expand_country, call.expand_city)
             raw == call.route
             size(p) == Len(e(raw[p][1])) * Len(e(raw[p][2]))
             off[p \in 1..(Len(raw) + 1)] ==
                 IF p = 1 THEN 0 ELSE off[p - 1] + size(p - 1)
         IN /\ Len(ret) = off[Len(raw) + 1]
            /\ \A p \in 1..Len(raw) :
                 \A i \in 1..Len(e(raw[p][1])), j \in 1..Len(e(raw[p][2])) :
                     ret[off[p] + (i - 1) * Len(e(raw[p][2])) + j]
                         = <<e(raw[p][1])[i], e(raw[p][2])[j]>>
    /\ (/\ call.fn = "canonicalize_route"
        /\ call.route = KR \o <<"-">> \o HKG
        /\ call.expand_country /\ ~ call.expand_city)
       => ret = << <<ICN, HKG>>, <<GMP, HKG>> >>

C2_Witness ==
    /\ call.fn = "expand_route"
    /\ call.route = << <<KR, TYO>>, <<HKG, KR>> >>
    /\ call.expand_country /\ call.expand_city
    /\ ret = << <<ICN, NRT>>, <<ICN, HND>>, <<GMP, NRT>>, <<GMP, HND>>,
                <<HKG, ICN>>, <<HKG, GMP>> >>

\* C3: expand_code returns the country list when expand_country is on and the
\* code is a country key (also when it is a city key and expand_city is on);
\* otherwise the city list when expand_city is on and the code is a city key;
\* otherwise [code].
C3_ExpandCode ==
    call.fn = "expand_code" =>
        LET isCountry == call.expand_country /\ call.code \in {KR, SG}
            isCity == call.expand_city /\ call.code \in {TYO, SG}
        IN /\ isCountry => ret = country_expansion_dict[call.code]
           /\ (~ isCountry /\ isCity) => ret = city_expansion_dict[call.code]
           /\ (~ isCountry /\ ~ isCity) => ret = <<call.code>>
           /\ (~ call.expand_country /\ ~ call.expand_city) => ret = <<call.code>>

C3_Witness ==
    /\ call.fn = "expand_code"
    /\ call.code = SG
    /\ call.expand_country /\ call.expand_city
    /\ ret = <<SIN>>
    /\ ret # city_expansion_dict[SG]

\* C4: in a pass the expand-country toggle gates the country table and the
\* expand-city toggle gates the city table.
C4_TogglesGateTheirTables ==
    pc # "run" =>
        /\ (expand_country /\ ~ expand_city)
             => canonicalized_route = canonicalize_route(route, TRUE, FALSE)
        /\ (~ expand_country /\ expand_city)
             => canonicalized_route = canonicalize_route(route, FALSE, TRUE)

\* C5: the no-data report is the canonicalized list minus the displayed
\* routes: a displayed pair is never listed, and every pair among the first
\* 1000 with no row is listed, in canonicalized order.
C5_NoDataReport ==
    pc = "done" =>
        LET labels == [i \in 1..Len(canonicalized_route) |->
                          RouteLabel(canonicalized_route[i][1],
                                     canonicalized_route[i][2])]
            first == SubSeq(labels, 1,
                            IF Len(labels) < MissingCap THEN Len(labels)
                            ELSE MissingCap)
        IN /\ \A i \in 1..Len(labels) :
                 labels[i] \in displayed_route => labels[i] \notin Range(missing)
           /\ missing = SelectSeq(first, LAMBDA l : l \notin displayed_route)

\* C6: a malformed route string contributes no pair with an empty airport code.
C6_NoEmptyCode ==
    call.fn = "canonicalize_route" =>
        \A i \in 1..Len(ret) : ret[i][1] # <<>> /\ ret[i][2] # <<>>

\* C7: a route string with no "-" in any comma-segment canonicalizes to the
\* empty list, whatever the flags and even when the tokens are table keys.
C7_NoDashNoPairs ==
    (call.fn = "canonicalize_route" /\ \A i \in 1..Len(call.route) : call.route[i] # "-")
    => ret = <<>>

C7_Witness ==
    /\ call.fn = "canonicalize_route"
    /\ call.route = <<"K", ",", "T", ">">>
    /\ call.expand_country /\ call.expand_city
    /\ ret = <<>>

\* C8: filtered_route is the subsequence of canonicalized_route (order and
\* duplicates kept) of the pairs that are the (origin, destination) of some
\* fetched availability; (A,B) is not kept because (B,A) has availability.
C8_KnownRoutes ==
    pc # "run" =>
        LET canon == canonicalized_route
            known(rp) == \E k \in 1..Len(availabilities) :
                             /\ availabilities[k].route[1] = rp[1]
                             /\ availabilities[k].route[2] = rp[2]
            idx == {i \in 1..Len(canon) : known(canon[i])}
            nth(n) == CHOOSE i \in idx : Cardinality({j \in idx : j <= i}) = n
        IN /\ Len(filtered_route) = Cardinality(idx)
           /\ \A n \in 1..Len(filtered_route) : filtered_route[n] = canon[nth(n)]

C8_Witness ==
    /\ pc # "run"
    /\ filtered_route # <<>>
    /\ \E i \in 1..Len(canonicalized_route) :
          /\ canonicalized_route[i] \notin Range(filtered_route)
          /\ <<canonicalized_route[i][2], canonicalized_route[i][1]>>
                 \in {a.route : a \in Range(availabilities)}

\* C9: with zero rows the pass reports "no matching routes" and halts, and the
\* chart, the raw-data table and the no-data report are not rendered in that
\* pass; with at least one row the error is not reported and all three are
\* rendered, chart first.
C9_Outputs == {"chart", "raw_data", "no_data"}

C9_PassState ==
    /\ pc = "stopped" => (route_df = <<>> /\ rendered = <<"caption", "error">>)
    /\ "error" \in Range(rendered)
         => (route_df = <<>> /\ pc = "stopped" /\ Range(rendered) \cap C9_Outputs = {})
    /\ Range(rendered) \cap C9_Outputs # {}
         => (route_df # <<>> /\ rendered[2] = "chart")
    /\ pc = "done"
         => (route_df # <<>> /\ rendered = <<"caption", "chart", "raw_data", "no_data">>)

\* the script cannot stall between two rendering steps
C9_Progress ==
    /\ (pc = "check" /\ route_df = <<>>) => (ENABLED NoMatch /\ ~ ENABLED RenderChart)
    /\ (pc = "check" /\ route_df # <<>>) => (ENABLED RenderChart /\ ~ ENABLED NoMatch)
    /\ pc = "raw" => ENABLED RenderRaw
    /\ pc = "no_data" => ENABLED RenderMissing

C9_EmptyTableHalts ==
    /\ [] C9_PassState
    /\ [] C9_Progress
    /\ [][(pc = "check" /\ route_df = <<>>)
            => (pc' = "stopped" /\ rendered' = Append(rendered, "error"))]_vars
    /\ [][(pc = "check" /\ route_df # <<>>)
            => rendered' = Append(rendered, "chart")]_vars
    /\ [][pc = "stopped" => (pc' = "run" /\ rendered' = <<>>)]_vars

C9_Witness ==
    /\ pc = "stopped"
    /\ route_df = <<>>
    /\ canonicalized_route # <<>>
    /\ rendered = <<"caption", "error">>

\* C10: route strings that differ only in whitespace canonicalize alike, and
\* no output code contains a whitespace character.
C10_WhitespaceStripped ==
    call.fn = "canonicalize_route" =>
        /\ ret = canonicalize_route(
                     SelectSeq(call.route, LAMBDA c : c \notin Whitespace),
                     call.expand_country, call.expand_city)
        /\ \A i \in 1..Len(ret) : \A side \in 1..2 :
               \A k \in 1..Len(ret[i][side]) : ret[i][side][k] \notin Whitespace

====
